---- MODULE Spec2Model ----
(***************************************************************************)
(* Flight-dynamics core of rocket-man (CF-104 simulation on bevy).         *)
(*                                                                         *)
(* f32/f64 quantities are modelled in fixed point on the integers:         *)
(*   time          milliseconds           (Time::delta_secs * 1000)        *)
(*   throttle      1/100 of a percent     (Throttle.0 * 100, 0 .. 10000)    *)
(*   thrust        newtons                                                  *)
(*   forces        millinewtons in the integration of the velocity          *)
(*   mass          grams                  (MassData.0 * 1000)               *)
(*   velocity      millimetres / second                                     *)
(*   position      millimetres                                              *)
(* Divisions truncate where f32 would round.                               *)
(***************************************************************************)
EXTENDS Integers, Sequences, FiniteSets, TLC

VARIABLES
    delta,          \* Time::delta_secs() of the running fixed tick (ms)
    inTick,         \* TRUE while a FixedUpdate pass is running
    ran,            \* systems of the FixedUpdate schedule that ran in this pass
    tick,           \* FixedUpdate passes started so far
    frame,          \* Update passes (rendered frames) run so far
    throttle,       \* Throttle.0
    engine,         \* Engine { elapsed, current_thrust }
    tank,           \* Tank component of every fuel tank
    mass_data,      \* MassData.0 of every mass component (grams)
    weather_initialized, \* WeatherInitialized(Option<Handle>, bool)
    meta,           \* WeatherMeta { lats, lons }
    temperature,    \* Temperature(Vec<f32>)
    find_call,      \* the latest call of find: its arguments and what it returned
    grounded,       \* TRUE while the CF-104 carries the Grounded tag
    velocity,       \* Velocity(Vec3), mm/s
    position,       \* GlobalPosition (f64), mm
    translation,    \* Transform.translation (f32), mm
    moving_center,  \* MovingOrigin(Option<Entity>)
    commands,       \* Commands queued in this pass, applied when the pass ends
    world_data_initialized, \* WorldDataInitialized(Option<Handle>, bool)
    ground_meta,    \* GroundMeta { lats, lons }
    height_data,    \* HeightData(Vec<f32>)
    land_cover,     \* LandCoverData(Vec<LandCover>)
    cover_call,     \* the latest call of find_nearest_land_cover: arguments, result
    ground_update,  \* how the latest run of update_ground ended
    atmos_call,     \* the latest get_temperature / get_pressure pair: arguments, results
    cl_call,        \* the latest call of cl: its argument and result
    chunk_translation, \* Transform.translation of a ground chunk
    cross_section, \* CrossSectionArea { cache, area }
    drag_call, \* the latest run of update_cross_section: its inputs, whether it recomputed
    angular_velocity, \* AngularVelocity.0 (1/10000 rad/s)
    control_call, \* the stick and pedal input of the latest update_angular_projectile_velocity
    nan,            \* the components of Velocity, GlobalPosition and Transform that are NaN
    aborted         \* TRUE once a system has panicked: the app has stopped

vars == <<delta, inTick, ran, tick, frame, throttle, engine, tank, mass_data,
          weather_initialized, meta, temperature, find_call,
          grounded, velocity, position, translation, moving_center, commands,
          world_data_initialized, ground_meta, height_data, land_cover, cover_call,
          ground_update, atmos_call, cl_call, chunk_translation,
          cross_section,
          drag_call,
          angular_velocity,
          control_call,
          nan, aborted>>

fuelVars == <<tank, mass_data>>

gridVars == <<weather_initialized, meta, temperature, find_call>>

flightVars == <<grounded, velocity, position, translation, moving_center, commands,
                chunk_translation, nan, aborted>>

groundVars == <<world_data_initialized, ground_meta, height_data, land_cover,
                cover_call, ground_update>>

airVars == <<atmos_call, cl_call, cross_section, drag_call, angular_velocity, control_call>>

----------------------------------------------------------------------------
\* Bounds of the model

\* Number of FixedUpdate passes explored.
MaxTicks == 3

\* Number of Update passes (frames) explored.
MaxFrames == 2

\* Fixed tick lengths (ms) that Time hands to the FixedUpdate systems.
DtSet == {1000, 2000}

\* Frame lengths (ms) that Time hands to the Update systems.
FrameDtSet == {1, 1000, 2000}

\* Longest lats / lons axis of a weather asset.
MaxAxisLen == 3

\* triangles the drag meshes hold at most
MaxTriangles == 2

\* Grid lines lie on the coordinates 0 .. MaxCoord.
MaxCoord == 3

\* Resolution (mm) of an f32 coordinate in the model.
F32Quantum == 4

\* Number of Update passes explored along with the flight systems.
MaxFlightFrames == 1

\* Fixed tick length (ms) explored for the flight systems.
FlightDtSet == {2000}

\* Fixed tick lengths (ms) explored for the fuel system: the second drains a
\* tank within a few ticks.
FuelDtSet == {2000, 400000}

----------------------------------------------------------------------------
\* Helpers

Min(a, b) == IF a <= b THEN a ELSE b

Max(a, b) == IF a >= b THEN a ELSE b

\* f32::clamp(x, lo, hi) for lo <= hi
Clamp(x, lo, hi) == Max(lo, Min(x, hi))

----------------------------------------------------------------------------
\* Engine (projectile/engine.rs)

\* Engine::cf104().max_thrust, newtons
max_thrust == 44000

\* Engine::cf104().ramp_time, 5.0 s in ms
ramp_time == 5000

\* Throttle is a percentage: 100.0 in 1/100 percent
ThrottleFull == 10000

\* `throttle.0 > 0.05` in update_engine_thrust, in 1/100 percent
SpoolThreshold == 5

\* Engine::cf104(): cold engine
EngineCf104 == [elapsed |-> 0, current_thrust |-> 0]

\* the elapsed update of update_engine_thrust (mod.rs 156-160)
ElapsedAfter(e, thr, dt) ==
    IF thr > SpoolThreshold
    THEN e + dt
    ELSE Max(e - dt * 2, 0)

\* variant of RampFactorNum that forgets `.clamp(0.0, 1.0)`
RampFactorNum_unclamped(e) == e

\* ramp_factor * ramp_time (mod.rs 162-166); ramp_time > 0 for the CF-104
RampFactorNum(e) ==
    IF ramp_time > 0
    THEN Clamp(e, 0, ramp_time)
    ELSE 1

RampFactorDen == IF ramp_time > 0 THEN ramp_time ELSE 1

\* engine.max_thrust * (throttle.0 / 100.) * ramp_factor (mod.rs 168)
ThrustOf(e, thr) ==
    (((max_thrust * thr) \div ThrottleFull) * RampFactorNum(e)) \div RampFactorDen

----------------------------------------------------------------------------
\* The fixed-tick schedule.  ProjectilePlugin registers its systems as one
\* unordered tuple, so within a pass they run once each, in any order.

BeginTick(dts) ==
    /\ ~inTick
    /\ ~aborted
    /\ tick < MaxTicks
    /\ inTick' = TRUE
    /\ tick' = tick + 1
    /\ ran' = {}
    /\ delta' \in dts
    /\ UNCHANGED <<frame, throttle, engine, fuelVars, gridVars, groundVars, airVars, flightVars>>

\* commands.entity(entity).remove::<Grounded>() / .insert(Grounded)
EntityCommand(op, entity) == [op |-> op, component |-> "Grounded", entity |-> entity]

\* the Grounded tag of the CF-104 after the queued command c is applied
ApplyCommand(tag, c) ==
    IF c.entity # "cf104" THEN tag
    ELSE IF c.op = "remove" THEN FALSE
    ELSE IF c.op = "insert" THEN TRUE
    ELSE tag

RECURSIVE ApplyCommands(_, _)
ApplyCommands(tag, cs) ==
    IF cs = <<>> THEN tag
    ELSE ApplyCommands(ApplyCommand(tag, Head(cs)), Tail(cs))

\* the end of a pass of the schedule made of `systems`: no system of the
\* tuple is ordered against another, so the queued Commands are applied once
\* every system has run
EndTick(systems) ==
    /\ inTick
    /\ ~aborted
    /\ ran = systems
    /\ inTick' = FALSE
    /\ ran' = {}
    /\ grounded' = ApplyCommands(grounded, commands)
    /\ commands' = <<>>
    /\ UNCHANGED <<delta, tick, frame, throttle, engine, fuelVars, gridVars, groundVars, airVars, chunk_translation,
                   velocity, position, translation, moving_center, nan, aborted>>

\* a panic in a system ends the app: no system runs after it
Scheduled(name) == inTick /\ ~aborted /\ name \notin ran

\* update_engine_thrust (projectile/mod.rs 149-170)
update_engine_thrust ==
    /\ Scheduled("update_engine_thrust")
    /\ LET e == ElapsedAfter(engine.elapsed, throttle, delta)
       IN engine' = [elapsed |-> e, current_thrust |-> ThrustOf(e, throttle)]
    /\ ran' = ran \cup {"update_engine_thrust"}
    /\ UNCHANGED <<delta, inTick, tick, frame, throttle, fuelVars, gridVars, groundVars, airVars, flightVars>>

----------------------------------------------------------------------------
\* Throttle lever (player/controls.rs)

\* const DELTA: f32 = 50.0 percent per second = 5 (1/100 percent) per ms
ThrottleRate == 5

\* variant of ThrottleAfter without f32::min and f32::max
ThrottleAfter_unclamped(thr, up, down, dt) ==
    IF up THEN thr + ThrottleRate * dt
    ELSE IF down THEN thr - ThrottleRate * dt
    ELSE thr

\* the match of throttle_controller: up wins over down, else unchanged
ThrottleAfter(thr, up, down, dt) ==
    IF up THEN Min(ThrottleFull, thr + ThrottleRate * dt)
    ELSE IF down THEN Max(0, thr - ThrottleRate * dt)
    ELSE thr

\* throttle_controller (player/controls.rs 282-324): a frame system, it runs
\* between fixed ticks.  up: an arm holding the lever has its up key Held or
\* Pressed; down: likewise for its down key.
throttle_controller(dts, frames) ==
    /\ ~inTick
    /\ ~aborted
    /\ frame < frames
    /\ frame' = frame + 1
    /\ \E dt \in dts, up, down \in BOOLEAN :
          throttle' = ThrottleAfter(throttle, up, down, dt)
    /\ UNCHANGED <<delta, inTick, ran, tick, engine, fuelVars, gridVars, groundVars, airVars, flightVars>>

----------------------------------------------------------------------------
\* Fuel tanks and mass components (projectile/mass.rs, cf104/mod.rs)

InternalTanks == {"internal"}

\* load_cf104 spawns two tip tanks (for i in 0..2) when tip_fuel_tanks is Some
ExternalTanks == {"tip0", "tip1"}

Tanks == InternalTanks \cup ExternalTanks

\* every entity carrying MassComponent(parent) + MassData
MassComponents == {"airframe", "nuke"} \cup Tanks

\* MassBundle::empty_cf_104: 6_300 kg
AirframeMass == 6300000

\* MassBundle::nuke: 226.7962 kg
NukeMass == 226796

\* InternalFuelTankBundle::new(2_608.0, ..)
InternalCapacity == 2608000

\* ExternalFuelTankBundle::new(454.0 * fuel_level, ..) with fuel_level = 1.
TipCapacity == 454000

\* flow_rates.0 of both bundles: 0.1 kg/s
IdleFlow == 100

\* InternalFuelTankBundle flow_rates.1: 5.0 kg/s
InternalMaxFlow == 5000

\* ExternalFuelTankBundle flow_rates.1: 2.5 kg/s
ExternalMaxFlow == 2500

\* `throttle.0 > 0.01` in update_tank_flow_rate, in 1/100 percent
ActivateThreshold == 1

InternalFuelTankBundle(cap) ==
    [max_capacity |-> cap, active |-> FALSE, flow_rates |-> <<IdleFlow, InternalMaxFlow>>,
     flow_rate |-> 0, target |-> "None"]

ExternalFuelTankBundle(cap, internal_tank) ==
    [max_capacity |-> cap, active |-> FALSE, flow_rates |-> <<IdleFlow, ExternalMaxFlow>>,
     flow_rate |-> 0, target |-> internal_tank]

\* the Tank components load_cf104 spawns
TankInit ==
    [t \in Tanks |->
        IF t \in InternalTanks
        THEN InternalFuelTankBundle(InternalCapacity)
        ELSE ExternalFuelTankBundle(TipCapacity, "internal")]

\* the MassData load_cf104 spawns: every tank starts full
MassInit ==
    [c \in MassComponents |->
        CASE c = "airframe" -> AirframeMass
          [] c = "nuke" -> NukeMass
          [] OTHER -> TankInit[c].max_capacity]

\* tank.flow_rates.0 + throttle.0 / 100. * (tank.flow_rates.1 - tank.flow_rates.0)
FlowRateOf(rates, thr) ==
    rates[1] + (thr * (rates[2] - rates[1])) \div ThrottleFull

\* variant of TankAfterThrottle whose flag follows the throttle
TankAfterThrottle_follows(tk, thr) ==
    [tk EXCEPT !.active = thr > ActivateThreshold,
               !.flow_rate = FlowRateOf(tk.flow_rates, thr)]

\* one iteration of either loop of update_tank_flow_rate
TankAfterThrottle(tk, thr) ==
    [tk EXCEPT !.active = IF thr > ActivateThreshold THEN TRUE ELSE tk.active,
               !.flow_rate = FlowRateOf(tk.flow_rates, thr)]

\* update_tank_flow_rate (mass.rs 153-177)
update_tank_flow_rate ==
    /\ Scheduled("update_tank_flow_rate")
    /\ tank' = [t \in Tanks |-> TankAfterThrottle(tank[t], throttle)]
    /\ ran' = ran \cup {"update_tank_flow_rate"}
    /\ UNCHANGED <<delta, inTick, tick, frame, throttle, engine, mass_data, gridVars, groundVars, airVars, flightVars>>

\* tank.flow_rate * dt: g/s * ms
Flow(rate, dt) == (rate * dt) \div 1000

\* `!tank.active || tank.flow_rate <= 0.00001` is false
Flowing(tk) == tk.active /\ tk.flow_rate > 0

\* variant of BurnAmount that adds the flow to the tank
BurnAmount_refill(content, flow) == 0 - flow

\* mass.rs 128: what an internal tank loses
BurnAmount(content, flow) == Min(content, flow)

\* first loop of update_fuel_mass_system (mass.rs 121-130)
DrainInternal(md, tk, dt) ==
    [c \in DOMAIN md |->
        IF c \in InternalTanks /\ Flowing(tk[c])
        THEN md[c] - BurnAmount(md[c], Flow(tk[c].flow_rate, dt))
        ELSE md[c]]

\* variant of TransferAmount that ignores the room left in the target
TransferAmount_no_room(flow, content, room) == Min(flow, content)

\* mass.rs 144-146: what an external tank hands over
TransferAmount(flow, content, room) == Min(Min(flow, content), room)

\* variant of TransferFrom that credits the target with the whole flow
TransferFrom_credit_flow(md, tk, x, dt) ==
    IF ~Flowing(tk[x]) \/ tk[x].target \notin InternalTanks
    THEN md
    ELSE LET t == tk[x].target
             flow == Flow(tk[x].flow_rate, dt)
             delta_weight == TransferAmount(flow, md[x], tk[t].max_capacity - md[t])
         IN [md EXCEPT ![t] = md[t] + flow,
                       ![x] = md[x] - delta_weight]

\* one iteration of the second loop (mass.rs 133-149)
TransferFrom(md, tk, x, dt) ==
    IF ~Flowing(tk[x]) \/ tk[x].target \notin InternalTanks
    THEN md
    ELSE LET t == tk[x].target
             delta_weight == TransferAmount(Flow(tk[x].flow_rate, dt), md[x],
                                            tk[t].max_capacity - md[t])
         IN [md EXCEPT ![t] = md[t] + delta_weight,
                       ![x] = md[x] - delta_weight]

\* the second loop over the external tanks in query order `order`
RECURSIVE TransferAll(_, _, _, _)
TransferAll(md, tk, order, dt) ==
    IF order = <<>>
    THEN md
    ELSE TransferAll(TransferFrom(md, tk, Head(order), dt), tk, Tail(order), dt)

\* the orders in which the query may visit the external tanks
ExternalOrders ==
    {o \in [1..Cardinality(ExternalTanks) -> ExternalTanks] :
        \A i, j \in DOMAIN o : i # j => o[i] # o[j]}

\* update_fuel_mass_system (mass.rs 113-151)
update_fuel_mass_system ==
    /\ Scheduled("update_fuel_mass_system")
    /\ \E order \in ExternalOrders :
          mass_data' = TransferAll(DrainInternal(mass_data, tank, delta), tank, order, delta)
    /\ ran' = ran \cup {"update_fuel_mass_system"}
    /\ UNCHANGED <<delta, inTick, tick, frame, throttle, engine, tank, gridVars, groundVars, airVars, flightVars>>

----------------------------------------------------------------------------
\* Grid sampling (projectile/weather.rs; world/ground/mod.rs holds the same
\* function over f64 axes)

Abs(x) == IF x < 0 THEN 0 - x ELSE x

RECURSIVE GCD(_, _)
GCD(a, b) == IF b = 0 THEN a ELSE GCD(b, a % b)

\* the f32 num / den as an exact fraction in lowest terms, den > 0
Frac(num, den) ==
    LET g == GCD(Abs(num), den)
    IN <<num \div g, den \div g>>

\* slice::binary_search_by on a sorted slice without duplicates:
\* Ok(i) where s[i] = x, else Err(i) with i the insertion point (0-based)
BinarySearch(s, x) ==
    IF \E i \in DOMAIN s : s[i] = x
    THEN [ok |-> TRUE, i |-> (CHOOSE i \in DOMAIN s : s[i] = x) - 1]
    ELSE [ok |-> FALSE, i |-> Cardinality({i \in DOMAIN s : s[i] < x})]

\* variant of CellIndex that forgets `.min(n - 2)`
CellIndex_uncapped(s, x) ==
    LET r == BinarySearch(s, x)
    IN IF r.ok THEN r.i ELSE Max(r.i - 1, 0)

\* weather.rs 113-116: Ok(i) => i.min(n - 2), Err(i) => i.saturating_sub(1).min(n - 2)
CellIndex(s, x) ==
    LET r == BinarySearch(s, x)
        n == Len(s)
    IN IF r.ok THEN Min(r.i, n - 2) ELSE Min(Max(r.i - 1, 0), n - 2)

\* variant of ClampQuery that extrapolates
ClampQuery_none(x, axis) == x

\* weather.rs 109-110: lat.clamp(lats[0], lats[n_lat - 1])
ClampQuery(x, axis) == Clamp(x, axis[1], axis[Len(axis)])

\* weather.rs 130-131: (lat1 - lat0).abs().max(f32::EPSILON); the floor only
\* matters for coinciding grid lines, where it stands for any positive number
Denom(x0, x1) == IF Abs(x1 - x0) = 0 THEN 1 ELSE Abs(x1 - x0)

\* variant of Bilinear that mixes up the corners f10 and f01
Bilinear_swapped(f00, f10, f01, f11, tn, td, un, ud) ==
    LET f0 == f00 * (td - tn) + f01 * tn
        f1 == f10 * (td - tn) + f11 * tn
    IN Frac(f0 * (ud - un) + f1 * un, td * ud)

\* weather.rs 145-147 with t = tn / td and u = un / ud
Bilinear(f00, f10, f01, f11, tn, td, un, ud) ==
    LET f0 == f00 * (td - tn) + f10 * tn
        f1 == f01 * (td - tn) + f11 * tn
    IN Frac(f0 * (ud - un) + f1 * un, td * ud)

\* Err(()): the one error value of Result<f32, ()>
Err == [kind |-> "Err", error |-> "()"]

\* variant of GridCheck that skips the size check
GridCheck_no_size(n_lat, n_lon, len) ==
    IF n_lat < 2 \/ n_lon < 2 THEN Err ELSE [kind |-> "Ok"]

\* weather.rs 100-106: the two early returns
GridCheck(n_lat, n_lon, len) ==
    IF n_lat < 2 \/ n_lon < 2 THEN Err
    ELSE IF len # n_lat * n_lon THEN Err
    ELSE [kind |-> "Ok"]

\* find (weather.rs 93-150; ground/mod.rs 518-575).  A slice index out of
\* bounds panics, as does f32::clamp with min > max.
find(lat0q, lon0q, lats, lons, data) ==
    LET n_lat == Len(lats)
        n_lon == Len(lons)
    IN IF GridCheck(n_lat, n_lon, Len(data)).kind = "Err"
       THEN GridCheck(n_lat, n_lon, Len(data))
       ELSE IF n_lat < 1 \/ n_lon < 1 \/ lats[1] > lats[n_lat] \/ lons[1] > lons[n_lon]
       THEN [kind |-> "panic"]
       ELSE LET lat == ClampQuery(lat0q, lats)
                lon == ClampQuery(lon0q, lons)
                lat_idx == CellIndex(lats, lat)
                lon_idx == CellIndex(lons, lon)
                idx(i, j) == i * n_lon + j
            IN IF \/ lat_idx < 0 \/ lat_idx + 2 > n_lat
                  \/ lon_idx < 0 \/ lon_idx + 2 > n_lon
                  \/ idx(lat_idx + 1, lon_idx + 1) + 1 > Len(data)
               THEN [kind |-> "panic"]
               ELSE LET lat0 == lats[lat_idx + 1]
                        lat1 == lats[lat_idx + 2]
                        lon0 == lons[lon_idx + 1]
                        lon1 == lons[lon_idx + 2]
                        f00 == data[idx(lat_idx, lon_idx) + 1]
                        f10 == data[idx(lat_idx + 1, lon_idx) + 1]
                        f01 == data[idx(lat_idx, lon_idx + 1) + 1]
                        f11 == data[idx(lat_idx + 1, lon_idx + 1) + 1]
                    IN [kind |-> "Ok",
                        value |-> Bilinear(f00, f10, f01, f11,
                                           lat - lat0, Denom(lat0, lat1),
                                           lon - lon0, Denom(lon0, lon1))]

\* strictly increasing axes on the coordinates 0 .. MaxCoord
IncreasingAxes ==
    UNION {{a \in [1..n -> 0..MaxCoord] : \A i \in 1..(n - 1) : a[i] < a[i + 1]} :
              n \in 0..MaxAxisLen}

\* the lats a weather file may hold: sorted ones and one listed north to south
LatAxes == IncreasingAxes \cup {<<MaxCoord, 0>>}

\* the lons a weather file may hold: 0, 2, 3, 4, .. cut to every length
LonAxes == {[k \in 1..n |-> IF k = 1 THEN 0 ELSE k] : n \in 0..MaxAxisLen}

\* a value field of a given length: 10, 20, 30, 40, then off the plane
DataOf(len) ==
    [k \in 1..len |-> 10 * k + 20 * (k \div 5) * (k % 3)]

\* the WeatherData assets the loader may deliver
WeatherAssets ==
    {[lats |-> la, lons |-> lo,
      temperature_2m |-> DataOf(Max(Len(la) * Len(lo) + off, 0))] :
        la \in LatAxes, lo \in LonAxes, off \in {0 - 1, 0, 1}}

\* latitudes / longitudes at which the grid is sampled
QueryCoords == ((0 - 1)..(MaxCoord + 1)) \cup {10 * MaxCoord}

\* variant of Initialized that leaves the flag as it was
Initialized_not(flag) == flag

\* `weather_intialized.0 = None; weather_intialized.1 = true` (weather.rs
\* 287-288), `world_data_initialize.0 = None; .1 = true` (ground/mod.rs 203-204)
Initialized(flag) == [handle |-> "None", done |-> TRUE]

\* initialize_weather (weather.rs 243-289) when the asset server delivers one
\* of assets: it copies the asset once it is loaded
LoadWeather(assets) ==
    /\ ~weather_initialized.done
    /\ weather_initialized.handle # "None"
    /\ \E data \in assets :
          /\ temperature' = data.temperature_2m
          /\ meta' = [lats |-> data.lats, lons |-> data.lons]
    /\ weather_initialized' = Initialized(weather_initialized)
    /\ UNCHANGED <<delta, inTick, ran, tick, frame, throttle, engine, fuelVars, find_call, flightVars, groundVars, airVars>>

initialize_weather == LoadWeather(WeatherAssets)

\* find(lat, lon, meta, &temperature.0) as get_temperature calls it (weather.rs 162)
sample_temperature ==
    /\ \E lat \in QueryCoords, lon \in QueryCoords :
          find_call' = [lat |-> lat, lon |-> lon,
                        lats |-> meta.lats, lons |-> meta.lons, data |-> temperature,
                        result |-> find(lat, lon, meta.lats, meta.lons, temperature)]
    /\ UNCHANGED <<delta, inTick, ran, tick, frame, throttle, engine, fuelVars,
                   weather_initialized, meta, temperature, flightVars, groundVars, airVars>>

----------------------------------------------------------------------------
\* Terrain (world/ground/mod.rs)

\* variant of NearestIndex that takes the line below the query, as find does
NearestIndex_below(s, x) ==
    LET r == BinarySearch(s, x)
        n == Len(s)
    IN IF r.ok THEN r.i
       ELSE IF r.i = 0 THEN 0
       ELSE IF r.i >= n THEN n - 1
       ELSE r.i - 1

\* ground/mod.rs 597-610: the index (0-based) of the closest line; the upper
\* line wins a tie
NearestIndex(s, x) ==
    LET r == BinarySearch(s, x)
        n == Len(s)
    IN IF r.ok THEN r.i
       ELSE IF r.i = 0 THEN 0
       ELSE IF r.i >= n THEN n - 1
       ELSE LET d0 == Abs(s[r.i] - x)
                d1 == Abs(s[r.i + 1] - x)
            IN IF d0 < d1 THEN r.i - 1 ELSE r.i

\* find_nearest_land_cover (ground/mod.rs 577-632)
find_nearest_land_cover(lat0q, lon0q, lats, lons, data) ==
    LET n_lat == Len(lats)
        n_lon == Len(lons)
    IN IF n_lat = 0 \/ n_lon = 0 \/ Len(data) # n_lat * n_lon
       THEN Err
       ELSE IF lats[1] > lats[n_lat] \/ lons[1] > lons[n_lon]
       THEN [kind |-> "panic"]
       ELSE LET lat == ClampQuery(lat0q, lats)
                lon == ClampQuery(lon0q, lons)
                lat_idx == NearestIndex(lats, lat)
                lon_idx == NearestIndex(lons, lon)
                idx == lat_idx * n_lon + lon_idx
            IN IF idx < 0 \/ idx + 1 > Len(data)
               THEN [kind |-> "panic"]
               ELSE [kind |-> "Ok", value |-> data[idx + 1]]

\* a land_use field of a given length: the k-th value is the k-th variant of
\* LandCover, so a value tells which index was read
LandUseOf(len) == [k \in 1..len |-> k]

\* data.height.iter().map(|x| x.max(0.0)) (ground/mod.rs 200)
HeightsOf(heights) == [k \in DOMAIN heights |-> Max(heights[k], 0)]

\* the lats a ground file may hold: up to two lines
GroundLatAxes == {a \in LatAxes : Len(a) <= 2}

\* the chunks update_ground may find missing
ChunkCoords == {0, MaxCoord}

\* the GroundData assets the loader may deliver: it checks neither the order
\* of the axes nor the sizes
GroundAssets ==
    {[lats |-> la, lons |-> lo,
      height |-> [k \in 1..Max(Len(la) * Len(lo) + off, 0) |-> 10 * k - 20],
      land_use |-> LandUseOf(Max(Len(la) * Len(lo) + off, 0))] :
        la \in GroundLatAxes, lo \in LonAxes, off \in {0 - 1, 0, 1}}

\* initialize_ground_data (ground/mod.rs 174-205) when the asset server
\* delivers one of assets
LoadGround(assets) ==
    /\ ~world_data_initialized.done
    /\ world_data_initialized.handle # "None"
    /\ \E data \in assets :
          /\ ground_meta' = [lats |-> data.lats, lons |-> data.lons]
          /\ height_data' = HeightsOf(data.height)
          /\ land_cover' = data.land_use
    /\ world_data_initialized' = Initialized(world_data_initialized)
    /\ UNCHANGED <<delta, inTick, ran, tick, frame, throttle, engine, fuelVars, gridVars,
                   flightVars, cover_call, ground_update, airVars>>

initialize_ground_data == LoadGround(GroundAssets)

\* find_nearest_land_cover applied to the ground resources, as update_ground
\* calls it (ground/mod.rs 341-347)
sample_land_cover ==
    /\ ground_update # "panic"
    /\ \E lat \in QueryCoords, lon \in QueryCoords :
          cover_call' = [lat |-> lat, lon |-> lon,
                         lats |-> ground_meta.lats, lons |-> ground_meta.lons,
                         data |-> land_cover,
                         result |-> find_nearest_land_cover(lat, lon, ground_meta.lats,
                                                            ground_meta.lons, land_cover)]
    /\ UNCHANGED <<delta, inTick, ran, tick, frame, throttle, engine, fuelVars, gridVars,
                   flightVars, world_data_initialized, ground_meta, height_data,
                   land_cover, ground_update, airVars>>

\* the four corners of the chunk at (lat, lon): one GRID_SIZE step is one unit
\* of latitude or longitude (ground/mod.rs 311-338)
ChunkCorners(lat, lon) ==
    {<<lat, lon>>, <<lat + 1, lon>>, <<lat, lon + 1>>, <<lat + 1, lon + 1>>}

\* Result::unwrap on the eight lookups of one chunk (ground/mod.rs 311-369):
\* every one of them has to be Ok
ChunkLookups(lat, lon) ==
    /\ \A c \in ChunkCorners(lat, lon) :
          find(c[1], c[2], ground_meta.lats, ground_meta.lons, height_data).kind = "Ok"
    /\ \A c \in ChunkCorners(lat, lon) :
          find_nearest_land_cover(c[1], c[2], ground_meta.lats, ground_meta.lons,
                                  land_cover).kind = "Ok"

\* update_ground (ground/mod.rs 234-369): it returns until the data is
\* initialised; then it samples the corners of a chunk that is not active yet
update_ground ==
    /\ ground_update # "panic"
    /\ IF ~world_data_initialized.done
       THEN ground_update' = "returned"
       ELSE \E lat \in ChunkCoords, lon \in ChunkCoords :
               ground_update' = IF ChunkLookups(lat, lon) THEN "done" ELSE "panic"
    /\ UNCHANGED <<delta, inTick, ran, tick, frame, throttle, engine, fuelVars, gridVars,
                   flightVars, world_data_initialized, ground_meta, height_data,
                   land_cover, cover_call, airVars>>

----------------------------------------------------------------------------
\* Flight (projectile/mod.rs, world/mod.rs).  A Vec3 is a record x, y, z; a
\* direction is a Vec3 of length 1000.

Vec3(x, y, z) == [x |-> x, y |-> y, z |-> z]

ZERO == Vec3(0, 0, 0)

Add(a, b) == Vec3(a.x + b.x, a.y + b.y, a.z + b.z)

Sub(a, b) == Vec3(a.x - b.x, a.y - b.y, a.z - b.z)

Neg(a) == Vec3(0 - a.x, 0 - a.y, 0 - a.z)

Sign(x) == IF x < 0 THEN 0 - 1 ELSE 1

\* a * b / c rounded towards zero, for c > 0, without leaving 32 bits
MulDiv(a, b, c) ==
    Sign(a) * Sign(b)
      * ((Abs(a) \div c) * Abs(b) + ((Abs(a) % c) * Abs(b)) \div c)

RECURSIVE SqrtSearch(_, _, _)
SqrtSearch(n, lo, hi) ==
    IF lo >= hi THEN lo
    ELSE LET mid == (lo + hi + 1) \div 2
         IN IF mid * mid <= n
            THEN SqrtSearch(n, mid, hi)
            ELSE SqrtSearch(n, lo, mid - 1)

\* f32::sqrt on the integers
Sqrt(n) == SqrtSearch(n, 0, 46340)

\* Vec3::length
Length(v) ==
    IF Max(Abs(v.x), Max(Abs(v.y), Abs(v.z))) < 26000
    THEN Sqrt(v.x * v.x + v.y * v.y + v.z * v.z)
    ELSE LET x == v.x \div 8
             y == v.y \div 8
             z == v.z \div 8
         IN 8 * Sqrt(x * x + y * y + z * z)

\* Vec3::normalize, for a vector that is not zero
Normalize(v) ==
    LET len == Length(v)
    IN Vec3(MulDiv(v.x, 1000, len), MulDiv(v.y, 1000, len), MulDiv(v.z, 1000, len))

\* dir * mag
Along(dir, mag) ==
    Vec3(MulDiv(mag, dir.x, 1000), MulDiv(mag, dir.y, 1000), MulDiv(mag, dir.z, 1000))

\* a.dot(dir) for a direction dir
Dot(a, dir) == MulDiv(a.x, dir.x, 1000) + MulDiv(a.y, dir.y, 1000) + MulDiv(a.z, dir.z, 1000)

\* f32 keeps fewer digits than f64: the model keeps Transform.translation on
\* a grid of F32Quantum mm and GlobalPosition on the grid of 1 mm
F32(x) == MulDiv(x, 1, F32Quantum) * F32Quantum

F32V(v) == Vec3(F32(v.x), F32(v.y), F32(v.z))

\* initialize_player: the CF-104 is spawned at (39.26, 2, 169.40) m
SpawnTranslation == F32V(Vec3(39257, 2000, 169401))

\* transform.rotation * Vec3::X for the spawn rotation, a yaw of -PI / 2; the
\* model keeps the aircraft on this heading
forward == Vec3(0, 0, 1000)

\* transform.rotation * Vec3::Y
up == Vec3(0, 1000, 0)

\* GRAVITY = 9.80907 m/s^2, in mm/s^2
GRAVITY == 9809

RECURSIVE Weigh(_, _)
Weigh(md, S) ==
    IF S = {} THEN 0
    ELSE LET c == CHOOSE y \in S : TRUE
         IN md[c] + Weigh(md, S \ {c})

\* get_weight (mass.rs 179-191), grams
get_weight(md) == Weigh(md, MassComponents)

\* the mass the integration divides by, kg
MassKg == get_weight(mass_data) \div 1000

\* Engine::thrust_vector: direction = from_rotation_y(PI) turns X into -X
thrust_vector == Along(Neg(forward), engine.current_thrust * 1000)

\* lift and drag magnitudes (mN) that lift_force and drag_force can compute:
\* both are proportional to the air density sampled from the weather grids.
\* Either there is no air to speak of, or the lift exceeds the weight.  kelvin is
\* the temperature get_temperature returned (1/100 K): 30 C at the surface less
\* the lapse over the 156 m of the runway.
Atmospheres ==
    {[lift |-> 0, drag |-> 0, kelvin |-> 30214],
     [lift |-> 150000000, drag |-> 2000000, kelvin |-> 30214]}

Axes == {"x", "y", "z"}

\* the components of the Vec3 in `slot` that are NaN
NaNIn(slot) == {a \in Axes : <<slot, a>> \in nan}

\* the NaN components of `slot` replaced by `axes`
NaNWith(set, slot, axes) ==
    {c \in set : c[1] # slot} \cup {<<slot, a>> : a \in axes}

\* a Vec3 whose NaN components are `axes`: the model keeps 0 in their place
Finite(v, axes) ==
    Vec3(IF "x" \in axes THEN 0 ELSE v.x,
         IF "y" \in axes THEN 0 ELSE v.y,
         IF "z" \in axes THEN 0 ELSE v.z)

\* the NaN components of total_force.  A NaN component of the velocity makes
\* speed NaN, so `speed < 1e-3` is false and drag_force returns
\* -drag_magnitude * velocity.normalize(), NaN in every component.  For a finite
\* velocity of speed >= 1e-3, speed_of_sound = (1.4 * GAS_CONSTANT *
\* temperature).sqrt() is NaN for a temperature below 0 K; then no comparison
\* of mach_number holds and drag_coefficient, drag_magnitude and every
\* component of the drag are NaN (drag.rs 201-231, util.rs 25-27).
ForceNaN(vn, vel, air) ==
    IF vn # {} \/ (Length(vel) >= 1 /\ air.kelvin < 0) THEN Axes ELSE {}

\* lift_force (lift.rs 28-44) with lift_mag = mag
lift_force(vel, mag) ==
    LET v_mag == Abs(Dot(vel, forward))
    IN IF v_mag < 1 THEN ZERO ELSE Along(up, mag)

\* drag_force (drag.rs 201-231) with drag_magnitude = mag
drag_force(vel, mag) ==
    IF Length(vel) < 1 THEN ZERO ELSE Along(Neg(Normalize(vel)), mag)

\* GroundedBundle::cf_104(): BrakeForce(8_000.0, false), mN; nothing sets it
BrakeForce == [force |-> 8000000, engaged |-> FALSE]

\* variant of RollingResistance with a coefficient of 8000 N per m/s
RollingResistance_stiff(speed) == speed * 8000

\* speed * ROLLING_RESISTANCE with ROLLING_RESISTANCE = 0.8, mN for mm/s
RollingResistance(speed) == (speed * 8) \div 10

\* velocity.0 += total_force / mass * dt
Integrate(vel, force, dt) ==
    Vec3(vel.x + MulDiv(MulDiv(force.x, dt, MassKg), 1, 1000),
         vel.y + MulDiv(MulDiv(force.y, dt, MassKg), 1, 1000),
         vel.z + MulDiv(MulDiv(force.z, dt, MassKg), 1, 1000))

\* variant of KeepForward that keeps the velocity as integrated
KeepForward_all(v) == v

\* mod.rs 411-415: the part of the velocity along forward plus its vertical
\* part, the vertical part not below zero
KeepForward(v) ==
    LET forward_vel == Along(forward, Dot(v, forward))
        kept == Add(forward_vel, Vec3(0, v.y, 0))
    IN [kept EXCEPT !.y = Max(kept.y, 0)]

\* the NaN components of the velocity update_grounded_velocity stores: the
\* sum with a NaN is NaN, forward * velocity.dot(forward) is NaN in every
\* component once one is, and f32::max returns 0.0 for a NaN y (mod.rs 406-415)
GroundedNaN(vn, vel, air) ==
    LET integrated == vn \cup ForceNaN(vn, vel, air)
        projected == IF integrated # {} THEN Axes ELSE {}
    IN projected \ {"y"}

\* the NaN components of the velocity update_projectile_velocity stores
\* (mod.rs 268-271)
ProjectileNaN(vn, vel, air) == vn \cup ForceNaN(vn, vel, air)

\* `if velocity.0.x.is_nan() { panic!() }` (mod.rs 287-289)
IsNanChecked(vn) == "x" \in vn

\* the velocity update_grounded_velocity stores for the BrakeForce component
\* `brake` (mod.rs 357-415)
GroundedVelocityWith(brake, vel, lift, drag, dt) ==
    LET speed == Length(vel)
        velocity_dir == IF speed > 1 THEN Normalize(vel) ELSE forward
        brake_force == IF brake.engaged
                       THEN Along(Neg(velocity_dir), brake.force)
                       ELSE ZERO
        rolling_resistance == Along(Neg(velocity_dir), RollingResistance(speed))
        gravity_force == Vec3(0, 0 - MassKg * GRAVITY, 0)
        total_force == Add(thrust_vector, Add(drag_force(vel, drag),
                         Add(brake_force, Add(rolling_resistance,
                           Add(lift_force(vel, lift), gravity_force)))))
    IN KeepForward(Integrate(vel, total_force, dt))

\* the velocity update_grounded_velocity stores with the brake as spawned
GroundedVelocity(vel, lift, drag, dt) ==
    GroundedVelocityWith(BrakeForce, vel, lift, drag, dt)

\* the velocity update_projectile_velocity stores (mod.rs 241-274)
ProjectileVelocity(vel, lift, drag, dt) ==
    LET gravity_force == Vec3(0, 0 - MassKg * GRAVITY, 0)
        total_force == Add(thrust_vector, Add(drag_force(vel, drag),
                         Add(lift_force(vel, lift), gravity_force)))
    IN Integrate(vel, total_force, dt)

\* variant of Lifts that also takes off at rest
Lifts_at_rest(vy) == vy >= 0

\* `if velocity.y > 0.0` (mod.rs 440)
Lifts(vy) == vy > 0

\* variant of Resync that leaves GlobalPosition as it was
Resync_skipped(pos, tr) == pos

\* position.x = transform.translation.x as f64, and y, z (mod.rs 441-443)
Resync(pos, tr) == tr

\* update_grounded_velocity (mod.rs 314-452) with the air drawn from `airs`
\* and the BrakeForce component from `brakes`; its query is With<Grounded>.  It
\* has no is_nan check.
GroundedVelocityStep(airs, brakes) ==
    /\ Scheduled("update_grounded_velocity")
    /\ \E air \in airs, brake \in brakes :
          IF grounded
          THEN LET vn == GroundedNaN(NaNIn("velocity"), velocity, air)
                   v == Finite(GroundedVelocityWith(brake, velocity, air.lift, air.drag,
                                                    delta), vn)
               IN /\ velocity' = v
                  /\ IF Lifts(v.y)
                     THEN /\ position' = Resync(position, translation)
                          /\ nan' = NaNWith(NaNWith(nan, "velocity", vn),
                                            "position", NaNIn("translation"))
                          /\ moving_center' = "cf104"
                          /\ commands' = Append(commands, EntityCommand("remove", "cf104"))
                     ELSE /\ nan' = NaNWith(nan, "velocity", vn)
                          /\ UNCHANGED <<position, moving_center, commands>>
          ELSE UNCHANGED <<velocity, position, moving_center, commands, nan>>
    /\ ran' = ran \cup {"update_grounded_velocity"}
    /\ UNCHANGED <<delta, inTick, tick, frame, throttle, engine, fuelVars, gridVars, groundVars, airVars, chunk_translation,
                   grounded, translation, aborted>>

update_grounded_velocity == GroundedVelocityStep(Atmospheres, {BrakeForce})

\* variant of ProjectileCommands that lands an aircraft at or below the
\* altitude it was spawned at
ProjectileCommands_landing(pos) ==
    IF pos.y <= SpawnTranslation.y
    THEN <<EntityCommand("insert", "cf104")>>
    ELSE <<>>

\* the Commands update_projectile_velocity queues: it takes no Commands
\* (mod.rs 206-229)
ProjectileCommands(pos) == <<>>

\* update_projectile_velocity (mod.rs 206-312) with the air drawn from `airs`;
\* its query is Without<Grounded>.  The velocity is stored before the check of
\* its x component panics.
ProjectileVelocityStep(airs) ==
    /\ Scheduled("update_projectile_velocity")
    /\ \E air \in airs :
          IF ~grounded
          THEN LET vn == ProjectileNaN(NaNIn("velocity"), velocity, air)
               IN /\ velocity' = Finite(ProjectileVelocity(velocity, air.lift, air.drag, delta), vn)
                  /\ nan' = NaNWith(nan, "velocity", vn)
                  /\ aborted' = IsNanChecked(vn)
                  /\ commands' = commands \o ProjectileCommands(position)
          ELSE UNCHANGED <<velocity, commands, nan, aborted>>
    /\ ran' = ran \cup {"update_projectile_velocity"}
    /\ UNCHANGED <<delta, inTick, tick, frame, throttle, engine, fuelVars, gridVars, groundVars, airVars, chunk_translation,
                   grounded, position, translation, moving_center>>

update_projectile_velocity == ProjectileVelocityStep(Atmospheres)

\* velocity * dt
Displacement(vel, dt) ==
    Vec3(MulDiv(vel.x, dt, 1000), MulDiv(vel.y, dt, 1000), MulDiv(vel.z, dt, 1000))

\* variant of Advance that moves the translation whatever the centre is
Advance_always(tr, vel, dt, center) == F32V(Add(tr, Displacement(vel, dt)))

\* `if center.0.is_none() { transform.translation += velocity.0 * dt }`
\* (mod.rs 471-473)
Advance(tr, vel, dt, center) ==
    IF center = "None"
    THEN F32V(Add(tr, Displacement(vel, dt)))
    ELSE tr

\* update_transform (mod.rs 454-493); its query takes the entities with a
\* Velocity, so the ground chunk is not in it; AngularVelocity stays zero on the
\* modelled heading, so the rotation is left alone
update_transform ==
    /\ Scheduled("update_transform")
    /\ LET pn == NaNIn("position") \cup NaNIn("velocity")
           tn == IF moving_center = "None"
                 THEN NaNIn("translation") \cup NaNIn("velocity")
                 ELSE NaNIn("translation")
       IN /\ position' = Finite(Add(position, Displacement(velocity, delta)), pn)
          /\ translation' = Finite(Advance(translation, velocity, delta, moving_center), tn)
          /\ nan' = NaNWith(NaNWith(nan, "position", pn), "translation", tn)
    /\ ran' = ran \cup {"update_transform"}
    /\ UNCHANGED <<delta, inTick, tick, frame, throttle, engine, fuelVars, gridVars, groundVars, airVars, chunk_translation,
                   grounded, velocity, moving_center, commands, aborted>>

\* variant of Recentre that ignores the centre
Recentre_absolute(global_position, center) == F32V(global_position)

\* new_translation (world/mod.rs 124-128)
Recentre(global_position, center) == F32V(Sub(global_position, center))

\* GlobalPosition of the ground chunk (1, 0) that update_ground spawned: x and
\* y times GRID_SIZE = 5 km (ground/mod.rs 434-438)
ChunkPosition == Vec3(5000000, 0, 0)

\* moving_origin (world/mod.rs 106-134): it runs over every entity with a
\* Transform and a GlobalPosition, here the CF-104 and a ground chunk; the
\* CF-104 is the only entity that becomes the centre
moving_origin ==
    /\ Scheduled("moving_origin")
    /\ IF moving_center = "None"
       THEN UNCHANGED <<translation, chunk_translation, nan>>
       ELSE LET center == position
                cn == NaNIn("position")
            IN /\ translation' = Finite(Recentre(position, center), cn)
               /\ chunk_translation' = Finite(Recentre(ChunkPosition, center), cn)
               /\ nan' = NaNWith(NaNWith(nan, "translation", cn), "chunk_translation", cn)
    /\ ran' = ran \cup {"moving_origin"}
    /\ UNCHANGED <<delta, inTick, tick, frame, throttle, engine, fuelVars, gridVars, groundVars, airVars,
                   grounded, velocity, position, moving_center, commands, aborted>>

----------------------------------------------------------------------------
\* Atmosphere (projectile/weather.rs, util.rs) and lift coefficient (lift.rs).
\* Temperatures are in 1/100 K (1/100 C for a surface reading), pressures in
\* Pa, altitudes in m, angles in 1/10000 rad, ratios and coefficients in
\* 1/10000.

\* 1.0 as a ratio
One == 10000

\* a * b for ratios
Mul(a, b) == MulDiv(a, b, One)

\* GAS_CONSTANT = 287.05 J/(kg K), in 1/100
GAS_CONSTANT == 28705

\* DEFAULT_SURFACE_TEMP = 30.0 C
DEFAULT_SURFACE_TEMP == 3000

\* DEFAULT_SURFACE_PRESSURE = 101_325.0 Pa
DEFAULT_SURFACE_PRESSURE == 101325

\* LAPSE_RATE = 0.0065 K/m, in 1/100 K per 100 m
LAPSE_RATE == 65

\* the altitude up to which the lapse-rate branches are taken: 11_000.0 m
Tropopause == 11000

\* the temperature above it: 216.65 K
StratosphereTemp == 21665

\* the temperature the anchor pressure is computed with: 288.15 K
AnchorTemp == 28815

\* celsius_to_kelvin (util.rs 31-33)
celsius_to_kelvin(temp_c) == temp_c + 27315

\* Result::unwrap_or
unwrap_or(r, default) == IF r.kind = "Ok" THEN r.value ELSE default

\* f32::sqrt of a ratio
Root(b) == Sqrt(b * One)

\* b.powf(GRAVITY / (GAS_CONSTANT * LAPSE_RATE)) for a ratio b in [0, 1]: the
\* exponent is 5.257, taken as 21/4
Powf(b) ==
    LET b2 == Mul(b, b)
        b4 == Mul(b2, b2)
    IN Mul(Mul(b4, b), Root(Root(b)))

\* (-x).exp() for a ratio x >= 0: one over the series of exp(x) up to x^4
ExpNeg(x) ==
    LET x2 == Mul(x, x)
        x3 == Mul(x2, x)
        x4 == Mul(x3, x)
    IN MulDiv(One, One, One + x + x2 \div 2 + x3 \div 6 + x4 \div 24)

\* get_temperature (weather.rs 152-169); reading is what find returned
get_temperature(reading, altitude) ==
    LET surface_temperature == celsius_to_kelvin(unwrap_or(reading, DEFAULT_SURFACE_TEMP))
    IN IF altitude <= Tropopause
       THEN surface_temperature - (LAPSE_RATE * altitude) \div 100
       ELSE StratosphereTemp

\* pressure_at_11km (weather.rs 193-194)
pressure_at_11km(surface_pressure_pa) ==
    Mul(surface_pressure_pa,
        Powf(One - MulDiv((LAPSE_RATE * Tropopause) \div 100, One, AnchorTemp)))

\* get_pressure (weather.rs 171-197); reading is what find returned and
\* temp is the temperature the caller passes
get_pressure(reading, altitude, temp) ==
    LET surface_pressure_pa == unwrap_or(reading, DEFAULT_SURFACE_PRESSURE)
    IN IF altitude <= Tropopause
       THEN Mul(surface_pressure_pa,
                Powf(One - MulDiv((LAPSE_RATE * altitude) \div 100, One, temp)))
       ELSE Mul(pressure_at_11km(surface_pressure_pa),
                ExpNeg(MulDiv(MulDiv(GRAVITY * 100, altitude - Tropopause, GAS_CONSTANT),
                              1000, temp)))

\* what find may return for the surface temperature (1/100 C)
SurfaceTemperatures ==
    {Err} \cup {[kind |-> "Ok", value |-> c] : c \in {0 - 2000, 0, 1500, 3000}}

\* what find may return for the surface pressure (Pa)
SurfacePressures ==
    {Err} \cup {[kind |-> "Ok", value |-> p] : p \in {95000, 101325, 104000}}

\* altitudes (m) of a vehicle: on the runway, climbing, around 11 km, above
Altitudes == {0, 156, 5000, 10999, 11000, 11001, 15000}

\* the weather lookups of one velocity update (mod.rs 375-377): the
\* temperature at the altitude, then the pressure computed with it
sample_atmosphere ==
    /\ \E t \in SurfaceTemperatures, p \in SurfacePressures, alt \in Altitudes :
          LET temp == get_temperature(t, alt)
          IN atmos_call' = [kind |-> "Sampled",
                            surface_temperature |-> t, surface_pressure |-> p,
                            altitude |-> alt, temperature |-> temp,
                            pressure |-> get_pressure(p, alt, temp)]
    /\ UNCHANGED <<delta, inTick, ran, tick, frame, throttle, engine, fuelVars, gridVars,
                   flightVars, groundVars, cl_call, cross_section, drag_call, angular_velocity, control_call>>

\* CF104_CL0 = 0.8
CF104_CL0 == 8000

\* CF104_CL_ALPHA = 5.7 per rad
CF104_CL_ALPHA == 57000

\* CF104_STALL_ALPHA = 15 degrees = 0.2618 rad
CF104_STALL_ALPHA == 2618

\* f32::cos of an angle of at most 2 rad either way: the series up to x^8
Cos(x) ==
    LET x2 == Mul(x, x)
        x4 == Mul(x2, x2)
        x6 == Mul(x4, x2)
        x8 == Mul(x4, x4)
    IN One - x2 \div 2 + x4 \div 24 - x6 \div 720 + x8 \div 40320

\* the branch of cl below the stall angle (lift.rs 22)
ClLinear(alpha) == CF104_CL0 + Mul(CF104_CL_ALPHA, alpha)

\* the branch of cl from the stall angle on (lift.rs 24)
ClTaper(alpha) ==
    CF104_CL0 + Mul(Mul(CF104_CL_ALPHA, CF104_STALL_ALPHA),
                    Cos(MulDiv(alpha, One, CF104_STALL_ALPHA)))

\* cl (lift.rs 19-26)
cl(alpha) ==
    IF Abs(alpha) < CF104_STALL_ALPHA
    THEN ClLinear(alpha)
    ELSE ClTaper(alpha)

\* angles of attack up to 0.5 rad either way, and those around the stall angle
Alphas ==
    {100 * k : k \in (0 - 50)..50}
      \cup {CF104_STALL_ALPHA - 1, CF104_STALL_ALPHA, CF104_STALL_ALPHA + 1,
            0 - CF104_STALL_ALPHA}

\* cl as lift_force calls it (lift.rs 37-38)
sample_cl ==
    /\ \E alpha \in Alphas :
          cl_call' = [kind |-> "Sampled", alpha |-> alpha, value |-> cl(alpha)]
    /\ UNCHANGED <<delta, inTick, ran, tick, frame, throttle, engine, fuelVars, gridVars,
                   flightVars, groundVars, atmos_call, cross_section, drag_call, angular_velocity, control_call>>

----------------------------------------------------------------------------
\* Cross-section (projectile/drag.rs).  Angles are in degrees, cosines in
\* 1/10000, areas in 1/100 m^2.  A projected triangle is the set of the half
\* unit squares it covers: <<x, y, "L">> is the half of the square at (x, y)
\* below its falling diagonal, <<x, y, "U">> the half above it.

\* f32::to_radians, degrees to 1/10000 rad
Radians(deg) == MulDiv(deg, 31416, 180)

\* max_angle = 1 - cos(5 degrees) (drag.rs 77)
max_angle == One - Cos(Radians(5))

\* the factor of `total_area *= 148.6884931`, in 1/100
AREA_SCALE == 14869

\* the projection of a right triangle with the right angle at (x0, y0) and
\* legs of n along both axes
RightTriangle(x0, y0, n) ==
    {<<x0 + p[1], y0 + p[2], "L">> :
        p \in {q \in (0..(n - 1)) \X (0..(n - 1)) : q[1] + q[2] <= n - 1}}
      \cup {<<x0 + p[1], y0 + p[2], "U">> :
              p \in {q \in (0..(n - 1)) \X (0..(n - 1)) : q[1] + q[2] <= n - 2}}

\* projected triangles of the drag meshes: two that overlap in half a square
\* and one apart from both
ProjectedTriangles ==
    {RightTriangle(0, 0, 2), RightTriangle(1, 0, 2), RightTriangle(3, 3, 1)}

\* the triangles the child meshes deliver, in the order they are pushed
TriangleLists ==
    UNION {[1..n -> ProjectedTriangles] : n \in 0..MaxTriangles}

\* cross_section.overlay(&triangle, OverlayRule::Union, FillRule::EvenOdd)
overlay(cross_section_shapes, triangle) == cross_section_shapes \cup triangle

\* the loop of drag.rs 165-169: it overlays the first triangle and breaks
CrossSectionOf(triangles) ==
    IF triangles = <<>>
    THEN {}
    ELSE overlay({}, triangles[1])

\* the shoelace sum over the contours of the shapes, times the factor
\* (drag.rs 170-182)
TotalArea(shapes) == MulDiv(Cardinality(shapes) * 50, AREA_SCALE, 100)

\* angles between the velocity and drag_transform.forward()
WindAngles == {0, 3, 10, 30, 60, 89, 90, 100}

\* update_cross_section (drag.rs 61-196) for the one entity with a Drag; the
\* velocity is either below 0.0001 or makes the angle deg with forward, and
\* triangles is what the child meshes project to.  drag_call.computed_at keeps
\* the angle of the latest recompute.
update_cross_section ==
    \E moving \in BOOLEAN, deg \in WindAngles, triangles \in TriangleLists :
        IF ~moving
        THEN /\ cross_section' = [cache |-> [kind |-> "None"], area |-> 0]
             /\ drag_call' = [kind |-> "Still", deg |-> 0, triangles |-> <<>>,
                              recomputed |-> FALSE, computed_at |-> 0 - 1]
             /\ UNCHANGED <<delta, inTick, ran, tick, frame, throttle, engine, fuelVars,
                            gridVars, flightVars, groundVars, atmos_call, cl_call, angular_velocity, control_call>>
        ELSE LET angle == Cos(Radians(deg))
             IN IF ~(angle >= max_angle) \/ cross_section.cache.kind = "None"
                THEN LET total_area == TotalArea(CrossSectionOf(triangles))
                     IN /\ cross_section' = [cache |-> [kind |-> "Final", area |-> total_area],
                                             area |-> total_area]
                        /\ drag_call' = [kind |-> "Moving", deg |-> deg,
                                         triangles |-> triangles,
                                         recomputed |-> TRUE, computed_at |-> deg]
                        /\ UNCHANGED <<delta, inTick, ran, tick, frame, throttle, engine,
                                       fuelVars, gridVars, flightVars, groundVars,
                                       atmos_call, cl_call, angular_velocity, control_call>>
                ELSE /\ cross_section' = [cross_section EXCEPT !.area = cross_section.cache.area]
                     /\ drag_call' = [drag_call EXCEPT !.kind = "Moving", !.deg = deg,
                                                       !.recomputed = FALSE]
                     /\ UNCHANGED <<delta, inTick, ran, tick, frame, throttle, engine,
                                    fuelVars, gridVars, flightVars, groundVars,
                                    atmos_call, cl_call, angular_velocity, control_call>>

----------------------------------------------------------------------------
\* Control surfaces (projectile/control_surfaces.rs).  Stick deflections and
\* angular rates are in 1/10000.

\* PITCH_RATE = 1.0, YAW_RATE = 0.1, ROLL_RATE = 2. (control_surfaces.rs 13-15)
PITCH_RATE == 10000

YAW_RATE == 1000

ROLL_RATE == 20000

\* speed_factor = 1.0 / (1.0 + speed * 0.01) + 0.01 (control_surfaces.rs 36),
\* speed in mm/s
SpeedFactor(speed) == MulDiv(One, 100000, 100000 + speed) + 100

\* Joystick.0: x is roll, y is pitch
Joysticks == {[x |-> x, y |-> y] : x \in {0 - 10000, 0, 10000}, y \in {0 - 10000, 0, 5000, 10000}}

\* yaw_input from the pedals (control_surfaces.rs 27-31)
YawInputs == {0 - 10000, 0, 10000}

\* ang_vel.0 = Vec3::new(..) (control_surfaces.rs 38-42)
AngularVelocityOf(speed, input, yaw_input) ==
    LET speed_factor == SpeedFactor(speed)
    IN Vec3(Mul(Mul(input.x, 0 - ROLL_RATE), speed_factor),
            Mul(Mul(yaw_input, 0 - YAW_RATE), speed_factor),
            Mul(Mul(input.y, PITCH_RATE), speed_factor))

\* update_angular_projectile_velocity (control_surfaces.rs 8-46); its query is
\* Without<Grounded>
update_angular_projectile_velocity ==
    /\ \E input \in Joysticks, yaw_input \in YawInputs :
          /\ control_call' = [kind |-> "Ran", input |-> input, yaw_input |-> yaw_input]
          /\ angular_velocity' = IF grounded
                                 THEN angular_velocity
                                 ELSE AngularVelocityOf(Length(velocity), input, yaw_input)
    /\ UNCHANGED <<delta, inTick, ran, tick, frame, throttle, engine, fuelVars, gridVars,
                   flightVars, groundVars, atmos_call, cl_call, cross_section, drag_call>>

\* velocities (mm/s) of a vehicle in the air: from rest to 350 m/s
AirVelocities == {Vec3(0, 0, 0 - z) : z \in {0, 10000, 20000, 100000, 300000, 350000}}

----------------------------------------------------------------------------
EngineSystems == {"update_engine_thrust"}

FuelSystems == {"update_tank_flow_rate", "update_fuel_mass_system"}

FlightSystems == {"update_engine_thrust", "update_grounded_velocity",
                  "update_projectile_velocity", "update_transform", "moving_origin"}

SpawnedAs(on_ground, vel) ==
    /\ delta = 0
    /\ inTick = FALSE
    /\ ran = {}
    /\ tick = 0
    /\ frame = 0
    /\ throttle = 0
    /\ engine = EngineCf104
    /\ tank = TankInit
    /\ mass_data = MassInit
    /\ weather_initialized = [handle |-> "weather/data.weather", done |-> FALSE]
    /\ meta = [lats |-> <<>>, lons |-> <<>>]
    /\ temperature = <<>>
    /\ find_call = [lat |-> 0, lon |-> 0, lats |-> <<>>, lons |-> <<>>, data |-> <<>>,
                    result |-> [kind |-> "None"]]
    /\ grounded = on_ground
    /\ velocity = vel
    /\ translation = SpawnTranslation
    /\ position = SpawnTranslation
    /\ moving_center = "None"
    /\ commands = <<>>
    /\ world_data_initialized = [handle |-> "world/europe.ground", done |-> FALSE]
    /\ ground_meta = [lats |-> <<>>, lons |-> <<>>]
    /\ height_data = <<>>
    /\ land_cover = <<>>
    /\ cover_call = [lat |-> 0, lon |-> 0, lats |-> <<>>, lons |-> <<>>, data |-> <<>>,
                     result |-> [kind |-> "None"]]
    /\ ground_update = "None"
    /\ atmos_call = [kind |-> "None"]
    /\ cl_call = [kind |-> "None"]
    /\ chunk_translation = F32V(ChunkPosition)
    /\ cross_section = [cache |-> [kind |-> "None"], area |-> 0]
    /\ drag_call = [kind |-> "None", deg |-> 0, triangles |-> <<>>,
                    recomputed |-> FALSE, computed_at |-> 0 - 1]
    /\ angular_velocity = ZERO
    /\ control_call = [kind |-> "None"]
    /\ nan = {}
    /\ aborted = FALSE

\* the CF-104 on the ground with a velocity
Spawned(vel) == SpawnedAs(TRUE, vel)

\* the state after construction: the CF-104 stands on the runway
Init == Spawned(ZERO)

Next ==
    \/ BeginTick(FlightDtSet)
    \/ throttle_controller(FlightDtSet, MaxFlightFrames)
    \/ update_engine_thrust
    \/ update_grounded_velocity
    \/ update_projectile_velocity
    \/ update_transform
    \/ moving_origin
    \/ EndTick(FlightSystems)

Spec == Init /\ [][Next]_vars

NextEngine ==
    \/ BeginTick(DtSet)
    \/ throttle_controller(FrameDtSet, MaxFrames)
    \/ update_engine_thrust
    \/ EndTick(EngineSystems)

SpecEngine == Init /\ [][NextEngine]_vars

NextFuel ==
    \/ BeginTick(FuelDtSet)
    \/ throttle_controller(FrameDtSet, MaxFrames)
    \/ update_tank_flow_rate
    \/ update_fuel_mass_system
    \/ EndTick(FuelSystems)

SpecFuel == Init /\ [][NextFuel]_vars

\* A fixed tick long enough for the idle flow to empty the tanks in two ticks,
\* and a frame short enough for the lever to stay next to its stop (ms)
DrainDtSet == {18000000}

DrainFrameDtSet == {1}

DrainSystems == {"update_tank_flow_rate", "update_fuel_mass_system", "update_engine_thrust"}

NextDrain ==
    \/ BeginTick(DrainDtSet)
    \/ throttle_controller(DrainFrameDtSet, MaxFrames)
    \/ update_tank_flow_rate
    \/ update_fuel_mass_system
    \/ update_engine_thrust
    \/ EndTick(DrainSystems)

\* The fuel and engine systems under the FixedUpdate schedule: the main loop
\* keeps starting passes, and a pass runs each of its systems and ends.
SpecDrain ==
    /\ Init
    /\ [][NextDrain]_vars
    /\ WF_vars(BeginTick(DrainDtSet))
    /\ WF_vars(update_tank_flow_rate)
    /\ WF_vars(update_fuel_mass_system)
    /\ WF_vars(update_engine_thrust)
    /\ WF_vars(EndTick(DrainSystems))

NextGrid ==
    \/ initialize_weather
    \/ sample_temperature

SpecGrid == Init /\ [][NextGrid]_vars

\* velocities (mm/s) a vehicle on the ground may have been given: rolling
\* ahead or back at 20 m/s or slowly, with or without side slip and sink
RollVelocities ==
    {Vec3(x, y, z) : x \in {0, 3000}, y \in {0 - 2000, 0},
                     z \in {0 - 20000, 0 - 40, 0, 40, 20000}}

RollSystems == {"update_engine_thrust", "update_grounded_velocity"}

\* the vehicle is on the ground with some velocity
InitRoll == \E vel \in RollVelocities : Spawned(vel)

\* The ground roll alone.
NextRoll ==
    \/ BeginTick(FlightDtSet)
    \/ throttle_controller(FlightDtSet, MaxFlightFrames)
    \/ update_engine_thrust
    \/ update_grounded_velocity
    \/ EndTick(RollSystems)

SpecRoll == InitRoll /\ [][NextRoll]_vars

\* The atmosphere alone.
NextAtmosphere == sample_atmosphere

SpecAtmosphere == Init /\ [][NextAtmosphere]_vars

\* The lift coefficient alone.
NextLift == sample_cl

SpecLift == Init /\ [][NextLift]_vars

\* The cross-section alone: each step is the run of one tick.
NextDrag == update_cross_section

SpecDrag == Init /\ [][NextDrag]_vars

\* the vehicle is in the air with some velocity
InitControl == \E vel \in AirVelocities : SpawnedAs(FALSE, vel)

\* The stick alone: each step is the run of one tick.
NextControl == update_angular_projectile_velocity

SpecControl == InitControl /\ [][NextControl]_vars

\* the weather files of the loading specification: two lines of latitude
\* and of longitude, any size of the value field
LoadWeatherAssets ==
    {a \in WeatherAssets : a.lats = <<0, MaxCoord>> /\ Len(a.lons) = 2}

\* its ground file: two lines of latitude and of longitude, a height and a
\* category for every grid point
LoadGroundAssets ==
    {a \in GroundAssets : /\ a.lats = <<0, MaxCoord>>
                          /\ Len(a.lons) = 2
                          /\ Len(a.height) = 4}

\* Loading: the two files arrive at any time while the fixed ticks run the
\* thrust and velocity updates of the vehicle on the ground and the frames
\* run the throttle and update_ground.
NextLoad ==
    \/ LoadWeather(LoadWeatherAssets)
    \/ LoadGround(LoadGroundAssets)
    \/ update_ground
    \/ BeginTick(FlightDtSet)
    \/ throttle_controller(FlightDtSet, MaxFlightFrames)
    \/ update_engine_thrust
    \/ update_grounded_velocity
    \/ EndTick(RollSystems)

SpecLoad == Init /\ [][NextLoad]_vars

\* The air of a weather file whose temperature cell holds a fill value of
\* -9999 C: get_temperature returns a temperature below 0 K
FillValueAtmospheres ==
    {[lift |-> 0, drag |-> 0,
      kelvin |-> get_temperature([kind |-> "Ok", value |-> 0 - 999900], 156)]}

\* velocities of a CF-104 at rest and moving along its heading
MovingVelocities == {ZERO, Vec3(0, 0, 0 - 50000)}

IntegrationSystems ==
    {"update_grounded_velocity", "update_projectile_velocity", "update_transform"}

\* the CF-104 on the runway or in the air
InitIntegration == \E on_ground \in BOOLEAN, vel \in MovingVelocities : SpawnedAs(on_ground, vel)

\* the integration steps of both phases over any air the weather file can give
NextIntegration ==
    \/ BeginTick(FlightDtSet)
    \/ GroundedVelocityStep(Atmospheres \cup FillValueAtmospheres, {BrakeForce})
    \/ ProjectileVelocityStep(Atmospheres \cup FillValueAtmospheres)
    \/ update_transform
    \/ EndTick(IntegrationSystems)

SpecIntegration == InitIntegration /\ [][NextIntegration]_vars

\* BrakeForce with its flag set: the brake is applied
BrakeApplied == [BrakeForce EXCEPT !.engaged = TRUE]

\* The ground roll with the brake applied and the engine off.
NextBrake ==
    \/ BeginTick(FlightDtSet)
    \/ GroundedVelocityStep(Atmospheres, {BrakeApplied})
    \/ EndTick({"update_grounded_velocity"})

SpecBrake == InitRoll /\ [][NextBrake]_vars

\* The terrain alone: the asset arrives, chunks are sampled.
NextGround ==
    \/ initialize_ground_data
    \/ sample_land_cover
    \/ update_ground

SpecGround == Init /\ [][NextGround]_vars

----------------------------------------------------------------------------
\* Properties

\* the step is a run of the system `name`
Ran(name) == name \notin ran /\ name \in ran'

RECURSIVE SumOver(_, _)
SumOver(f, S) ==
    IF S = {}
    THEN 0
    ELSE LET x == CHOOSE y \in S : TRUE
         IN f[x] + SumOver(f, S \ {x})

\* the step ends a pass of the fixed-tick schedule
PassEnds == inTick /\ ~inTick'

\* number of queued removals of the CF-104's Grounded tag
Removals(cs) ==
    Cardinality({i \in 1..Len(cs) : cs[i] = EntityCommand("remove", "cf104")})

\* C1: the vehicle is Grounded or Airborne (the tag is there or not); a run of
\* update_grounded_velocity on a Grounded vehicle asks for the tag's removal
\* if and only if the vertical velocity it stored (integrated, stripped of
\* lateral slip, clamped to >= 0) is > 0; and when the pass ends the Grounded
\* vehicle has left Grounded if and only if that velocity is > 0.
C1_LeavesGroundIffRising ==
    [][ /\ grounded' \in BOOLEAN
        /\ (Ran("update_grounded_velocity") /\ grounded)
              => /\ velocity'.y >= 0
                 /\ (Removals(commands') > Removals(commands)) <=> (velocity'.y > 0)
        /\ (PassEnds /\ grounded)
              => (~grounded' <=> velocity.y > 0) ]_vars

\* a pass has ended with the vehicle Airborne and rising
C1_Witness == ~grounded /\ ~inTick /\ velocity.y > 0 /\ commands = <<>>

\* C2: when a run of update_grounded_velocity takes the vertical velocity of
\* a Grounded vehicle from <= 0 to > 0, GlobalPosition is then equal to the
\* render translation and exactly one removal of Grounded is queued; the end
\* of that pass applies that one removal and the vehicle is Airborne.
C2_TakeoffResyncsOnce ==
    [][ /\ (Ran("update_grounded_velocity") /\ grounded
              /\ velocity.y <= 0 /\ velocity'.y > 0)
              => /\ position' = translation'
                 /\ Removals(commands') = 1
        /\ (PassEnds /\ grounded /\ velocity.y > 0)
              => /\ Removals(commands) = 1
                 /\ ~grounded' ]_vars

\* the vehicle has just taken off: still tagged, the removal queued, the
\* position resynchronised and the origin moved onto it
C2_Witness ==
    /\ grounded /\ inTick /\ velocity.y > 0
    /\ "update_grounded_velocity" \in ran
    /\ Removals(commands) = 1
    /\ position = translation
    /\ moving_center = "cf104"

\* C3: an Airborne vehicle stays Airborne in every step.
C3_NoLanding == [][~grounded => ~grounded']_vars

\* a pass has ended with the vehicle Airborne, sinking, below the altitude it
\* was spawned at
C3_Witness ==
    /\ ~grounded /\ ~inTick
    /\ velocity.y < 0
    /\ position.y < SpawnTranslation.y

\* C4 (as claimed): after any sequence of update_engine_thrust ticks the
\* engine's elapsed stays within [0, ramp_time].
C4_ElapsedWithinRampTime ==
    0 <= engine.elapsed /\ engine.elapsed <= ramp_time

\* C5: in a tick of update_engine_thrust with the throttle at 100 % the thrust
\* does not decrease, does not exceed max_thrust, follows
\* max_thrust * elapsed / ramp_time below ramp_time and equals max_thrust once
\* elapsed has reached ramp_time.
C5_FullThrottleRamp ==
    [][(Ran("update_engine_thrust") /\ throttle = ThrottleFull) =>
          /\ engine'.current_thrust >= engine.current_thrust
          /\ engine'.current_thrust <= max_thrust
          /\ engine'.elapsed >= ramp_time => engine'.current_thrust = max_thrust
          /\ engine'.elapsed < ramp_time =>
                engine'.current_thrust = (max_thrust * engine'.elapsed) \div ramp_time
      ]_vars

\* C5 witness: full throttle held until elapsed is exactly ramp_time
C5_Witness ==
    /\ throttle = ThrottleFull
    /\ engine.elapsed = ramp_time
    /\ engine.current_thrust = max_thrust

\* C6: a run of update_fuel_mass_system changes the fuel held by all tanks
\* together by exactly what the internal tanks burn: the transfers from the
\* external tanks to their target add and remove the same amount.
C6_TransferConservesMass ==
    [][Ran("update_fuel_mass_system") =>
          LET burned == [i \in InternalTanks |->
                            IF Flowing(tank[i])
                            THEN Min(mass_data[i], (tank[i].flow_rate * delta) \div 1000)
                            ELSE 0]
          IN SumOver(mass_data', Tanks)
                = SumOver(mass_data, Tanks) - SumOver(burned, InternalTanks)
      ]_vars

\* C6 witness: an active external tank has handed over part of its fuel
C6_Witness ==
    \E x \in ExternalTanks :
        /\ tank[x].active
        /\ 0 < mass_data[x]
        /\ mass_data[x] < tank[x].max_capacity

\* C7: every tank's content stays within [0, max_capacity].
C7_TankWithinCapacity ==
    \A t \in Tanks : 0 <= mass_data[t] /\ mass_data[t] <= tank[t].max_capacity

\* C7 witness: both external tanks fed the internal tank in one tick and the
\* room left in it limited the transfer: it is full again.
C7_Witness ==
    /\ \A x \in ExternalTanks : tank[x].active /\ mass_data[x] < tank[x].max_capacity
    /\ mass_data["internal"] = tank["internal"].max_capacity

\* the call sampled a grid
Sampled == find_call.result.kind # "None"

StrictlyIncreasing(a) == \A i \in 1..(Len(a) - 1) : a[i] < a[i + 1]

\* either axis of the sampled grid has fewer than 2 points
Insufficient(c) == Len(c.lats) < 2 \/ Len(c.lons) < 2

\* data.len() != lats.len() * lons.len()
Mismatch(c) == Len(c.data) # Len(c.lats) * Len(c.lons)

\* a usable grid: two points or more per axis, strictly increasing, data of
\* the matching size
Usable(c) ==
    /\ ~Insufficient(c)
    /\ ~Mismatch(c)
    /\ StrictlyIncreasing(c.lats)
    /\ StrictlyIncreasing(c.lons)

\* the point of the covered range nearest to x
Nearest(x, axis) ==
    IF x < axis[1] THEN axis[1]
    ELSE IF x > axis[Len(axis)] THEN axis[Len(axis)]
    ELSE x

\* C8: on a usable grid, sampling at any lat/lon returns what sampling at the
\* nearest point of the covered range returns (no extrapolation).
C8_SamplingClamps ==
    (Sampled /\ Usable(find_call)) =>
        LET c == find_call
        IN /\ c.result.kind = "Ok"
           /\ c.result = find(Nearest(c.lat, c.lats), Nearest(c.lon, c.lons),
                               c.lats, c.lons, c.data)

\* C8 witness: a three-line grid sampled far beyond its last lines, with the
\* value stored at the last corner as the result
C8_Witness ==
    /\ Sampled
    /\ Usable(find_call)
    /\ Len(find_call.lats) = 3
    /\ find_call.lat > 2 * find_call.lats[3]
    /\ find_call.lon > 2 * find_call.lons[Len(find_call.lons)]
    /\ find_call.result
          = [kind |-> "Ok", value |-> <<find_call.data[Len(find_call.data)], 1>>]

\* C9: on a usable grid, sampling at a grid point (lats[i], lons[j]) returns
\* data[i * n_lon + j], sampling at the centre of a cell returns the mean of
\* its four corners, and the returned value is the one find gives for these
\* arguments.
C9_BilinearAtPointsAndCentres ==
    (Sampled /\ Usable(find_call)) =>
        LET c == find_call
            n_lon == Len(c.lons)
            at(i, j) == c.data[(i - 1) * n_lon + j]
        IN /\ \A i \in DOMAIN c.lats, j \in DOMAIN c.lons :
                 (c.lat = c.lats[i] /\ c.lon = c.lons[j]) =>
                     c.result = [kind |-> "Ok", value |-> <<at(i, j), 1>>]
           /\ \A i \in 1..(Len(c.lats) - 1), j \in 1..(n_lon - 1) :
                 (2 * c.lat = c.lats[i] + c.lats[i + 1] /\ 2 * c.lon = c.lons[j] + c.lons[j + 1]) =>
                     c.result = [kind |-> "Ok",
                                 value |-> Frac(at(i, j) + at(i + 1, j) + at(i, j + 1)
                                                  + at(i + 1, j + 1), 4)]
           /\ c.result = find(c.lat, c.lon, c.lats, c.lons, c.data)

\* C9 witness: the 2 x 2 grid with corners 10, 20, 30, 40 sampled at its
\* centre gives 25
C9_Witness ==
    /\ Sampled
    /\ find_call.lats = <<0, 2>>
    /\ find_call.lons = <<0, 2>>
    /\ find_call.data = <<10, 20, 30, 40>>
    /\ find_call.lat = 1
    /\ find_call.lon = 1
    /\ find_call.result = [kind |-> "Ok", value |-> <<25, 1>>]

\* C10 (as claimed): sampling fails when an axis has fewer than 2 points,
\* fails with a different error when only the data size mismatches, and
\* returns a value in every other case.
C10_DistinctErrors ==
    Sampled =>
        LET c == find_call
        IN /\ Insufficient(c) => c.result.kind = "Err"
           /\ (~Insufficient(c) /\ Mismatch(c)) =>
                 /\ c.result.kind = "Err"
                 /\ c.result # find(c.lat, c.lon, <<>>, <<>>, <<>>)
           /\ (~Insufficient(c) /\ ~Mismatch(c)) => c.result.kind = "Ok"

\* C10 (amended): sampling fails with the one error Err(()) when an axis has
\* fewer than 2 points and with the same Err(()) when the data size
\* mismatches; it returns a value when neither holds and each axis runs from
\* its smallest to its largest line.
C10_OneError ==
    Sampled =>
        LET c == find_call
        IN /\ (Insufficient(c) \/ Mismatch(c)) => c.result = Err
           /\ (Usable(c)) => c.result.kind = "Ok"
           /\ c.result.kind = "Ok" => (~Insufficient(c) /\ ~Mismatch(c))

\* C10 witness: both axes have 2 points or more, the data size is wrong, and
\* the call failed with the error an empty grid gives
C10_Witness ==
    /\ Sampled
    /\ ~Insufficient(find_call)
    /\ Mismatch(find_call)
    /\ find_call.result = find(find_call.lat, find_call.lon, <<>>, <<>>, <<>>)

\* C11: on a grid whose axes are strictly increasing with 2 points or more,
\* for every query, the cell find selects has 0 <= lat_idx <= n_lat - 2 and
\* 0 <= lon_idx <= n_lon - 2, its lines enclose the clamped query, the four
\* corner indices lie inside the n_lat * n_lon values, the offsets t and u
\* lie in [0, 1], and the call does not panic.
C11_CellEnclosesQuery ==
    (Sampled /\ ~Insufficient(find_call)
        /\ StrictlyIncreasing(find_call.lats) /\ StrictlyIncreasing(find_call.lons)) =>
        LET c == find_call
            n_lat == Len(c.lats)
            n_lon == Len(c.lons)
            lat == ClampQuery(c.lat, c.lats)
            lon == ClampQuery(c.lon, c.lons)
            lat_idx == CellIndex(c.lats, lat)
            lon_idx == CellIndex(c.lons, lon)
        IN /\ 0 <= lat_idx /\ lat_idx <= n_lat - 2
           /\ 0 <= lon_idx /\ lon_idx <= n_lon - 2
           /\ c.lats[lat_idx + 1] <= lat /\ lat <= c.lats[lat_idx + 2]
           /\ c.lons[lon_idx + 1] <= lon /\ lon <= c.lons[lon_idx + 2]
           /\ (lat_idx + 1) * n_lon + lon_idx + 1 < n_lat * n_lon
           /\ 0 <= lat - c.lats[lat_idx + 1]
           /\ lat - c.lats[lat_idx + 1] <= Denom(c.lats[lat_idx + 1], c.lats[lat_idx + 2])
           /\ 0 <= lon - c.lons[lon_idx + 1]
           /\ lon - c.lons[lon_idx + 1] <= Denom(c.lons[lon_idx + 1], c.lons[lon_idx + 2])
           /\ c.result.kind # "panic"

\* C11 witness: a query on the last latitude line and beyond the last
\* longitude line of a grid with three lines per axis: both indices are
\* capped at n - 2
C11_Witness ==
    /\ Sampled
    /\ Usable(find_call)
    /\ Len(find_call.lats) = 3
    /\ Len(find_call.lons) = 3
    /\ find_call.lat = find_call.lats[3]
    /\ find_call.lon > find_call.lons[3]
    /\ find_call.result.kind = "Ok"

\* the land-cover lookup has been applied to a loaded ground grid
CoverSampled == cover_call.result.kind # "None" /\ world_data_initialized.done

\* a grid the land-cover lookup accepts: a line on each axis, ascending, and
\* one category per grid point
CoverUsable(c) ==
    /\ Len(c.lats) >= 1 /\ Len(c.lons) >= 1
    /\ Len(c.data) = Len(c.lats) * Len(c.lons)
    /\ StrictlyIncreasing(c.lats) /\ StrictlyIncreasing(c.lons)

\* i is an index of a line of s that is nearest to x
NearestLine(s, x, i) ==
    /\ i \in 1..Len(s)
    /\ \A k \in 1..Len(s) : Abs(s[i] - x) <= Abs(s[k] - x)

\* C12: find_nearest_land_cover returns the stored category data[i*n_lon + j]
\* verbatim, where i is the index of the grid latitude nearest to the clamped
\* query latitude and j the index of the grid longitude nearest to the clamped
\* query longitude, each axis on its own; the result is an element of data.
C12_NearestCategory ==
    (CoverSampled /\ CoverUsable(cover_call)) =>
        LET c == cover_call
            lat == ClampQuery(c.lat, c.lats)
            lon == ClampQuery(c.lon, c.lons)
        IN /\ c.result.kind = "Ok"
           /\ \E i \in 1..Len(c.lats), j \in 1..Len(c.lons) :
                 /\ NearestLine(c.lats, lat, i)
                 /\ NearestLine(c.lons, lon, j)
                 /\ c.result.value = c.data[(i - 1) * Len(c.lons) + j]
           /\ \E k \in 1..Len(c.data) : c.result.value = c.data[k]

\* a query strictly between two latitude lines and nearer to the upper one,
\* and halfway between two longitude lines, answered with a category
C12_Witness ==
    /\ CoverSampled /\ CoverUsable(cover_call)
    /\ Len(cover_call.lats) >= 2 /\ Len(cover_call.lons) >= 2
    /\ cover_call.lats[1] + 1 < cover_call.lat /\ cover_call.lat < cover_call.lats[2]
    /\ cover_call.lon - cover_call.lons[1] = cover_call.lons[2] - cover_call.lon
    /\ cover_call.result.kind = "Ok"
    /\ cover_call.result.value = Len(cover_call.lons) + 2

\* C13: no failure of grid sampling is fatal: the terrain lookups of
\* update_ground never bring the program down, whatever grid was loaded.
C13_SamplingNeverFatal == ground_update # "panic"

\* update_grounded_velocity runs on a Grounded vehicle whose engine gives no
\* thrust and whose brake is off, with no lift and no drag to speak of
RollsFreely ==
    /\ Ran("update_grounded_velocity") /\ grounded
    /\ throttle = 0 /\ engine.current_thrust = 0
    /\ ~BrakeForce.engaged
    /\ velocity' = GroundedVelocity(velocity, 0, 0, delta)

C15_NoSlipNoSink ==
    [][ (Ran("update_grounded_velocity") /\ grounded) =>
          LET v == velocity'
          IN /\ v.y >= 0
             /\ Sub(v, Add(Along(forward, Dot(v, forward)), Vec3(0, v.y, 0))) = ZERO ]_vars

\* update_grounded_velocity has run on a vehicle that rolls back on the
\* ground: what is left of its velocity lies along the forward axis
C15_Witness ==
    /\ grounded /\ "update_grounded_velocity" \in ran
    /\ velocity.z < 0 /\ velocity.x = 0 /\ velocity.y = 0

\* C16: the temperature has no jump at 11,000 m: whatever the surface
\* temperature, get_temperature at 11,000 m (the lapse-rate branch) is, within
\* 0.01 K, the value one metre above (216.65 K).
C16_TemperatureContinuous ==
    (atmos_call.kind = "Sampled" /\ atmos_call.altitude = Tropopause) =>
        Abs(atmos_call.temperature
              - get_temperature(atmos_call.surface_temperature, Tropopause + 1)) <= 1

\* C17: the pressure has no jump at 11,000 m: whatever the surface pressure
\* and temperature, get_pressure at exactly 11,000 m (the troposphere branch)
\* returns, within 1 Pa, the pressure_at_11km the stratosphere branch is
\* anchored at.
C17_PressureContinuous ==
    (atmos_call.kind = "Sampled" /\ atmos_call.altitude = Tropopause) =>
        Abs(atmos_call.pressure
              - pressure_at_11km(unwrap_or(atmos_call.surface_pressure,
                                           DEFAULT_SURFACE_PRESSURE))) <= 1

\* C18: cl has no jump at the stall angle: at alpha = 15 degrees the value cl
\* returns (the cosine-taper branch) is, within 0.0001, the value of the
\* linear branch Cl0 + Cl_alpha * alpha.
C18_LiftCoefficientContinuous ==
    (cl_call.kind = "Sampled" /\ cl_call.alpha = CF104_STALL_ALPHA) =>
        Abs(cl_call.value - ClLinear(CF104_STALL_ALPHA)) <= 1

\* C19: on every tick and in both phases update_transform advances the
\* GlobalPosition by velocity * dt; it advances the render translation by the
\* same step only when no moving origin is designated, and leaves the
\* translation unchanged when one is.
C19_TransformAdvance ==
    [][ Ran("update_transform") =>
          LET step == Displacement(velocity, delta)
          IN /\ position' = Add(position, step)
             /\ moving_center = "None" => translation' = F32V(Add(translation, step))
             /\ moving_center # "None" => translation' = translation ]_vars

\* update_transform has run on the Airborne, climbing CF-104 while it is the
\* moving origin: its GlobalPosition has moved on, its translation is where
\* the latest moving_origin put it
C19_Witness ==
    /\ "update_transform" \in ran /\ "moving_origin" \notin ran
    /\ moving_center = "cf104" /\ ~grounded /\ velocity.y > 0
    /\ translation = ZERO
    /\ position # SpawnTranslation

\* the entities that have a Transform and a GlobalPosition
Entities == {"cf104", "chunk"}

\* C20: the moving origin is no entity or one entity; when one is designated,
\* after each run of moving_origin the render translation of every entity is
\* its GlobalPosition minus the origin entity's GlobalPosition (as f32), so
\* the origin entity's own translation is zero; when none is designated,
\* moving_origin changes no transform.
C20_FloatingOrigin ==
    [][ /\ moving_center' \in {"None"} \cup Entities
        /\ Ran("moving_origin") =>
              IF moving_center = "None"
              THEN translation' = translation /\ chunk_translation' = chunk_translation
              ELSE /\ translation' = ZERO
                   /\ translation' = F32V(Sub(position, position))
                   /\ chunk_translation' = F32V(Sub(ChunkPosition, position)) ]_vars

\* moving_origin has run with the CF-104 as the origin after it moved away
\* from where it was spawned: the chunk is drawn relative to the CF-104
C20_Witness ==
    /\ "moving_origin" \in ran /\ moving_center = "cf104"
    /\ position # SpawnTranslation
    /\ translation = ZERO
    /\ chunk_translation = F32V(Sub(ChunkPosition, position))
    /\ chunk_translation # F32V(ChunkPosition)

\* C21: within every fixed tick the steps of a vehicle run in the order
\* thrust update, velocity update, position update, however the registered
\* systems are scheduled: when update_transform runs, update_engine_thrust and
\* the velocity update of the vehicle's phase have already run in that tick.
C21_VelocityBeforePosition ==
    [][ /\ Ran("update_transform") =>
              /\ grounded => "update_grounded_velocity" \in ran
              /\ ~grounded => "update_projectile_velocity" \in ran
        /\ (Ran("update_grounded_velocity") /\ grounded) => "update_engine_thrust" \in ran
        /\ (Ran("update_projectile_velocity") /\ ~grounded) => "update_engine_thrust" \in ran
      ]_vars

\* C22: the cached cross-section area is recomputed in a tick only when the
\* angle between the relative wind and the forward axis differs by more than
\* 5 degrees from the angle at which the cache was last computed; within 5
\* degrees of it the cached area is reused unchanged; a recompute makes its
\* angle the new reference.
C22_RecomputeBeyondFiveDegrees ==
    [][ (drag_call'.kind = "Moving" /\ cross_section.cache.kind = "Final"
           /\ drag_call.computed_at >= 0) =>
          /\ drag_call'.recomputed <=> Abs(drag_call'.deg - drag_call.computed_at) > 5
          /\ ~drag_call'.recomputed =>
                /\ cross_section' = [cross_section EXCEPT !.area = cross_section.cache.area]
                /\ drag_call'.computed_at = drag_call.computed_at
          /\ drag_call'.recomputed => drag_call'.computed_at = drag_call'.deg ]_vars

\* the region the projections of all the triangles cover together
UnionOf(triangles) == UNION {triangles[i] : i \in DOMAIN triangles}

\* C23: a recomputed cross-section area is the area of the union of the
\* projections of all triangles of all child drag meshes: every projected
\* triangle is in the overlay and what two triangles share is counted once.
C23_AreaOfUnion ==
    (drag_call.kind = "Moving" /\ drag_call.recomputed) =>
        cross_section.area = TotalArea(UnionOf(drag_call.triangles))

\* MIN_EFFECTIVE_SPEED = 20.0 and MAX_EFFECTIVE_SPEED = 300.0 m/s, in mm/s
MIN_EFFECTIVE_SPEED == 20000

MAX_EFFECTIVE_SPEED == 300000

\* C24: for an Airborne vehicle the pitch and roll rates a stick deflection
\* commands are scaled by a control effectiveness that is 0 at and below the
\* minimum effective airspeed, 1 at and above the maximum effective airspeed,
\* and does not decrease with the airspeed in between.
C24_ControlEffectiveness ==
    (control_call.kind = "Ran" /\ ~grounded) =>
        LET speed == Length(velocity)
            input == control_call.input
        IN /\ speed <= MIN_EFFECTIVE_SPEED =>
                 angular_velocity.x = 0 /\ angular_velocity.z = 0
           /\ speed >= MAX_EFFECTIVE_SPEED =>
                 /\ angular_velocity.x = Mul(input.x, 0 - ROLL_RATE)
                 /\ angular_velocity.z = Mul(input.y, PITCH_RATE)
           /\ \A faster \in AirVelocities :
                 Length(faster) >= speed =>
                    LET w == AngularVelocityOf(Length(faster), input, control_call.yaw_input)
                    IN /\ Abs(w.x) >= Abs(angular_velocity.x)
                       /\ Abs(w.z) >= Abs(angular_velocity.z)

\* the weather grid and the ground grid
WeatherGrid == <<meta, temperature>>

GroundGrid == <<ground_meta, height_data, land_cover>>

\* a flag once set stays set, and a grid is written only in the step that
\* sets its flag
LoadedOnce ==
    /\ weather_initialized.done => weather_initialized'.done
    /\ world_data_initialized.done => world_data_initialized'.done
    /\ WeatherGrid' # WeatherGrid => ~weather_initialized.done /\ weather_initialized'.done
    /\ GroundGrid' # GroundGrid => ~world_data_initialized.done /\ world_data_initialized'.done

\* update_ground changes nothing of the world before the ground flag is set
GroundGated ==
    (~world_data_initialized.done /\ ground_update' # ground_update) =>
        /\ ground_update' = "returned"
        /\ UNCHANGED <<gridVars, flightVars, GroundGrid, world_data_initialized>>

\* C25 (as the code has it): grid loading is a one-time event: an initialized
\* flag that is set is never cleared, the grid arrays are written only in the
\* step that sets the flag and never afterwards, and update_ground changes no
\* state in any run before the ground flag is set.  The velocity updates do
\* not look at the weather flag: before it is set they run on the defaults.
C25_LoadedOnce == [][LoadedOnce /\ GroundGated]_vars

\* C25 (as stated): in addition every system that depends on a grid, the
\* velocity update that samples the weather included, changes no state in
\* any tick before the flag of that grid is set.
C25_GatedOnFlag ==
    [][ /\ LoadedOnce /\ GroundGated
        /\ (Ran("update_grounded_velocity") /\ ~weather_initialized.done) =>
              UNCHANGED <<velocity, position, moving_center, commands>> ]_vars

\* both files are loaded, update_ground has sampled the ground grid since,
\* and a fixed tick has run after the weather was loaded
C25_Witness ==
    /\ weather_initialized.done /\ world_data_initialized.done
    /\ Len(meta.lats) = 2 /\ Len(ground_meta.lons) >= 2 /\ height_data # <<>>
    /\ ground_update = "done"
    /\ tick >= 2 /\ ~inTick

\* C26: a NaN velocity is fatal.  Whenever a component of the velocity is NaN,
\* the step that stored it (the integration of either phase) has aborted the
\* simulation, so no later tick runs with the NaN state.
C26_NaNVelocityIsFatal == NaNIn("velocity") # {} => aborted

\* update_grounded_velocity runs on a Grounded vehicle with the brake applied,
\* no thrust, and no lift and no drag to speak of
Brakes ==
    /\ Ran("update_grounded_velocity") /\ grounded
    /\ engine.current_thrust = 0
    /\ velocity' = GroundedVelocityWith(BrakeApplied, velocity, 0, 0, delta)

Burned ==
    SumOver([i \in InternalTanks |->
                IF Flowing(tank[i])
                THEN Min(mass_data[i], (tank[i].flow_rate * delta) \div 1000)
                ELSE 0],
            InternalTanks)

\* C28: the total mass get_weight returns is strictly positive before and after
\* every step and never increases; it falls only in a run of
\* update_fuel_mass_system, by exactly what the internal tanks burn, so the
\* transfers from the external tanks leave it unchanged.
C28_WeightOnlyFalls ==
    [][ /\ get_weight(mass_data) > 0
        /\ get_weight(mass_data') > 0
        /\ get_weight(mass_data') <= get_weight(mass_data)
        /\ get_weight(mass_data) - get_weight(mass_data')
              = IF Ran("update_fuel_mass_system") THEN Burned ELSE 0 ]_vars

\* C28 witness: after two ticks the vehicle is lighter than it was spawned, the
\* internal tank is below its capacity and a tip tank has handed over fuel
C28_Witness ==
    /\ tick >= 2 /\ ~inTick
    /\ get_weight(mass_data) < get_weight(MassInit)
    /\ mass_data["internal"] < InternalCapacity
    /\ \E x \in ExternalTanks : tank[x].active /\ mass_data[x] < TipCapacity

\* C29: in every reachable state, after any sequence of throttle_controller
\* steps (any keys, any frame lengths), the throttle is within [0, 100] percent,
\* so the fraction throttle / 100 that update_engine_thrust uses is within
\* [0, 1], and 0 <= current_thrust <= max_thrust.
C29_ThrottleAndThrustBounded ==
    /\ 0 <= throttle /\ throttle <= ThrottleFull
    /\ 0 <= engine.current_thrust /\ engine.current_thrust <= max_thrust

\* C29 witness: the lever was pushed for two frames, the second one against the
\* stop, and the engine gives thrust
C29_Witness ==
    /\ frame = 2
    /\ throttle = ThrottleFull
    /\ tick >= 1 /\ ~inTick
    /\ 0 < engine.current_thrust /\ engine.current_thrust < max_thrust

\* a step of the latch: a tank's flag is never cleared, it is set only by a run
\* of update_tank_flow_rate that sees the throttle above 0.01, no content
\* changes while no tank is active, an active tank flows at its idle rate or
\* more, a run of update_fuel_mass_system takes min(content, flow) out of every
\* active internal tank whatever the throttle is, and the thrust
\* update_engine_thrust stores is a function of throttle and elapsed alone
LatchStep ==
    /\ \A t \in Tanks :
          /\ tank[t].active => tank'[t].active
          /\ (~tank[t].active /\ tank'[t].active)
                => (Ran("update_tank_flow_rate") /\ throttle > ActivateThreshold)
          /\ tank'[t].active => tank'[t].flow_rate >= IdleFlow
    /\ (\A t \in Tanks : ~tank[t].active) => mass_data' = mass_data
    /\ Ran("update_fuel_mass_system") =>
          SumOver(mass_data', Tanks)
             = SumOver(mass_data, Tanks)
                 - SumOver([i \in InternalTanks |->
                              IF tank[i].active
                              THEN Min(mass_data[i], (tank[i].flow_rate * delta) \div 1000)
                              ELSE 0], InternalTanks)
    /\ Ran("update_engine_thrust") =>
          engine'.current_thrust
             = ThrustOf(ElapsedAfter(engine.elapsed, throttle, delta), throttle)

\* an internal tank that is active with two passes still to come ends up empty
DrainsEmpty ==
    \A i \in InternalTanks :
        (tank[i].active /\ tick < MaxTicks - 1) ~> (mass_data[i] = 0)

\* C30: the active flag of a tank is a latch.  No tank content changes before
\* the throttle first exceeds 0.01; from then on the tank is active in every
\* later tick, so an active internal tank keeps losing fuel at the idle flow or
\* more even with the throttle back at 0 and is eventually empty, while
\* current_thrust does not depend on any tank's content.
C30_ActiveIsALatch == [][LatchStep]_vars /\ DrainsEmpty

\* C30 witness: the lever is back at 0, the tanks are still active and the
\* idle flow has emptied all of them
C30_Witness ==
    /\ throttle = 0 /\ ~inTick
    /\ \A t \in Tanks : tank[t].active /\ mass_data[t] = 0

====
